---- MODULE Spec2Model ----
(***************************************************************************)
(* A model of the knowledge base of vijayshankarrealdeal/test_agent:       *)
(* KnowledgeBase (src/app/database.py) over a Qdrant index and the Gemini  *)
(* embedding provider, the ingestion script (src/ingest.py), and the      *)
(* chat-history logger ChatLogger (src/app/history.py) over PostgreSQL.    *)
(*                                                                         *)
(* The index and the provider are the environment: every call to them is   *)
(* a step whose outcome (success, or one of the errors they raise) is      *)
(* chosen nondeterministically.  The program is single-threaded; pc is the *)
(* position of its one thread.                                             *)
(***************************************************************************)
EXTENDS Integers, Sequences, FiniteSets, TLC

\* ------------------------------------------------------------------ bounds
\* The most documents in the input of the ingestion run.
MaxDocs == 20
\* Re-ingestion: the most later calls of upsert_documents on one object, and
\* the most documents in each.
MaxCalls == 3
MaxReDocs == 3
\* The most lines in the data file.
MaxLines == 3
\* Chat history: the most pools connect is given, and the most rows logged.
MaxPools == 2
MaxChats == 2

\* ------------------------------------------------------- program constants
\* database.py:87
BATCH_SIZE == 10
\* database.py:57, the default of the parameter retries
RETRIES == 3
\* database.py:75, the factor of the backoff wait
BACKOFF_UNIT == 10
\* database.py:116, the pause after a stored batch
BATCH_PAUSE == 1
\* database.py:33, the dimension assumed when the probe fails
DEFAULT_DIM == 768
\* database.py:121, the default of the parameter n_results
N_RESULTS == 3

\* database.py:15
collection_name == "anantya_docs"
\* Another collection of the same index, not the program's.
OtherName == "other_docs"
\* The dimensions the provider may produce.
Dims == {DEFAULT_DIM, 2 * DEFAULT_DIM}
\* database.py:53
COSINE == "Cosine"

\* database.py:138 and :150, the two fixed results of search
\* (a string is a sequence of tokens)
NoInfo == <<"No relevant information found in the knowledge base.">>
SearchError == <<"Error searching knowledge base.">>
\* No value returned yet.
NoValue == <<>>

None == "None"

\* No exception in flight (a value of the shape of the exception values).
NoError == [type |-> "None", msg |-> <<>>]

\* history.py:11, self.pool = None (a pool is a positive number)
NoPool == 0

\* ------------------------------------------------------------------ errors
\* An exception value: its class and its message (str(e)) as a sequence of
\* tokens.  "x in str(e)" is modelled as "x is one of the tokens".
ErrQuota429 == [type |-> "ResourceExhausted", msg |-> <<"429", "rate", "limit">>]
ErrQuota == [type |-> "ResourceExhausted", msg |-> <<"Quota", "exceeded">>]
ErrResource == [type |-> "ResourceExhausted", msg |-> <<"RESOURCE", "exhausted">>]
ErrPermission == [type |-> "PermissionDenied", msg |-> <<"403", "Resource", "denied">>]
ErrInvalid == [type |-> "InvalidArgument", msg |-> <<"400", "invalid", "key">>]
ErrDeadline == [type |-> "DeadlineExceeded", msg |-> <<"504", "deadline">>]

\* What genai.embed_content may raise.
ProviderErrors ==
    {ErrQuota429, ErrQuota, ErrResource, ErrPermission, ErrInvalid, ErrDeadline}

\* What the index client may raise.
ErrIndexDown == [type |-> "ResponseHandlingException", msg |-> <<"connection", "refused">>]
ErrIndexRejects == [type |-> "UnexpectedResponse", msg |-> <<"400", "bad", "request">>]
ErrNoCollection == [type |-> "ValueError", msg |-> <<"collection", "missing">>]
IndexErrors == {ErrIndexDown, ErrIndexRejects}

\* database.py:82, Exception("Failed to get embeddings after retries")
RetriesExhausted ==
    [type |-> "Exception",
     msg |-> <<"Failed", "to", "get", "embeddings", "after", "retries">>]

\* str.lower() on one token.
LowerToken(t) ==
    CASE t = "Quota" -> "quota"
      [] t = "RESOURCE" -> "resource"
      [] t = "Resource" -> "resource"
      [] t = "Failed" -> "failed"
      [] OTHER -> t

Lower(msg) == [k \in DOMAIN msg |-> LowerToken(msg[k])]

Contains(msg, tok) == \E k \in DOMAIN msg : msg[k] = tok

\* database.py:74, the test that makes an error retryable
IsRateLimit(e) ==
    \/ Contains(e.msg, "429")
    \/ Contains(Lower(e.msg), "quota")
    \/ Contains(Lower(e.msg), "resource")

\* A handler that takes only the error of exhausted retries.
HandlerCatchesExhaustedOnly(e) == e = RetriesExhausted

\* database.py:118, "except Exception" takes every exception value.
HandlerCatches(e) == TRUE

\* ------------------------------------------------------------ pure helpers
Min(a, b) == IF a <= b THEN a ELSE b

\* A slice that takes the element at hi as well.
SliceInclusive(s, lo, hi) == SubSeq(s, lo + 1, Min(hi + 1, Len(s)))

\* Python's s[lo : hi] for 0 <= lo <= hi (0-based, hi exclusive, clipped).
Slice(s, lo, hi) == SubSeq(s, lo + 1, Min(hi, Len(s)))

\* Python's range(0, n, step) as the set of its values.
RangeStep(n, step) == {k \in 0..n : k < n /\ k % step = 0}

\* database.py:107, {"text": doc, **meta}: the entries of meta come last.
Payload(doc, meta) ==
    [k \in {"text"} \cup DOMAIN meta |->
        IF k \in DOMAIN meta THEN meta[k] ELSE doc]

\* database.py:103-108, the points built from zip(docs, metas, ids, vectors):
\* as many as the shortest of the four lists.
BuildPoints(docs, metas, dids, vectors) ==
    [k \in 1..Min(Min(Len(docs), Len(metas)), Min(Len(dids), Len(vectors))) |->
        [id |-> dids[k], vector |-> vectors[k], payload |-> Payload(docs[k], metas[k])]]

\* ------------------------------------------------------ embedding provider
\* The vector the provider returns for a text when its dimension is dim.
Embedding(dim, text) == [dim |-> dim, of |-> text]

\* result['embedding'] of a successful batch call: one vector per text.
EmbedBatch(dim, texts) == [k \in DOMAIN texts |-> Embedding(dim, texts[k])]

\* ------------------------------------------------------------ vector index
\* The index is a function from the names of its collections to
\* [size, distance, points]; points is a set of [id, vector, payload].
HasCollection(colls, name) == name \in DOMAIN colls

\* A delete that takes every collection of the index.
DeleteEverything(colls, name) == [n \in {} |-> colls[n]]

DeleteCollection(colls, name) ==
    [n \in DOMAIN colls \ {name} |-> colls[n]]

CreateCollection(colls, name, size, distance) ==
    [n \in DOMAIN colls \cup {name} |->
        IF n = name
        THEN [size |-> size, distance |-> distance, points |-> {}]
        ELSE colls[n]]

\* A write that adds the point and keeps what is stored.
PutPointAppend(stored, p) == stored \cup {p}

\* One point written: it replaces the stored point of the same id.
PutPoint(stored, p) == {q \in stored : q.id # p.id} \cup {p}

RECURSIVE PutPoints(_, _)
PutPoints(stored, pts) ==
    IF pts = <<>> THEN stored
    ELSE PutPoints(PutPoint(stored, Head(pts)), Tail(pts))

\* client.upsert(collection_name, points) when the index accepts the write.
UpsertInto(colls, name, pts) ==
    [colls EXCEPT ![name].points = PutPoints(@, pts)]

\* The index rejects a write into a missing collection or of a vector whose
\* length is not the collection's size.
UpsertAcceptable(colls, name, pts) ==
    /\ HasCollection(colls, name)
    /\ \A k \in DOMAIN pts : pts[k].vector.dim = colls[name].size

\* --------------------------------------------------------- provisioning
\* A test that never finds a mismatch.
SizeMismatchNever(size, dim) == FALSE

\* database.py:42, the test that condemns the existing collection
SizeMismatch(size, dim) == size # dim

\* Another default dimension.
DimOnProbeFailureDouble == 2 * DEFAULT_DIM

\* database.py:31-33, the dimension used when the probe raised
DimOnProbeFailure == DEFAULT_DIM

\* A backoff that starts at zero.
WaitTimeFromZero(a) == a * BACKOFF_UNIT

\* database.py:75, the wait after the failed attempt of 0-based index a
WaitTime(a) == (a + 1) * BACKOFF_UNIT

\* -------------------------------------------------------------- inputs
\* The text of the document at position k of the input of call c.
TextOf(c, k) == <<c, k>>

NoMeta == [k \in {} |-> <<>>]

\* Two families of inputs.  "distinct": every document its own id.
\* "cyclic": ids repeat with period IdCycle, and the metadata varies (none,
\* a source, and a mapping that has a key named text).
IdCycle == 2
Schemes == {"distinct", "cyclic"}

IdOf(scheme, k) == IF scheme = "distinct" THEN k ELSE ((k - 1) % IdCycle) + 1

MetaOf(scheme, k) ==
    IF scheme = "distinct" THEN [source |-> <<"x">>]
    ELSE CASE k % 3 = 1 -> [source |-> <<"y">>]
           [] k % 3 = 2 -> NoMeta
           [] OTHER -> [source |-> <<"z">>, text |-> <<0, 0>>]

InputDocs(c, n) == [k \in 1..n |-> TextOf(c, k)]
InputMetas(scheme, n) == [k \in 1..n |-> MetaOf(scheme, k)]
InputIds(scheme, n) == [k \in 1..n |-> IdOf(scheme, k)]

\* A point left in the collection by an earlier run, of the collection's size.
OldPoint(size) ==
    [id |-> 1, vector |-> Embedding(size, TextOf(0, 1)),
     payload |-> Payload(TextOf(0, 1), [source |-> <<"old">>])]

OtherCollection ==
    [size |-> DEFAULT_DIM, distance |-> COSINE, points |-> {OldPoint(DEFAULT_DIM)}]

\* The index before the program starts: the other collection, and the
\* program's collection absent, or present with some size, empty or not.
IndexWith(d, pts) ==
    [n \in {OtherName, collection_name} |->
        IF n = OtherName THEN OtherCollection
        ELSE [size |-> d, distance |-> COSINE, points |-> pts]]

InitialIndexes ==
    {[n \in {OtherName} |-> OtherCollection]}
    \cup {IndexWith(d, {}) : d \in Dims}
    \cup {IndexWith(d, {OldPoint(d)}) : d \in Dims}

\* ---------------------------------------------------------------- state
VARIABLES
    collections,       \* the index: name -> [size, distance, points]
    providerDim,       \* the length of the vectors the provider returns
    index0,            \* the index as it was before the program started
    probeOk,           \* __init__: the probe returned a vector
    pc,                \* the position of the program
    actual_dim,        \* __init__: the probed (or default) dimension
    collection_names,  \* __init__: the names listed at database.py:37
    documents,         \* upsert_documents: the argument documents
    metadatas,         \* upsert_documents: the argument metadatas
    ids,               \* upsert_documents: the argument ids
    i,                 \* upsert_documents: the start of the current batch
    attempt,           \* get_embeddings_batch: the loop variable
    batch_vectors,     \* upsert_documents: the vectors of the current batch
    err,               \* the exception in flight (NoError: none)
    retval,            \* the value the last finished call returned
    trace,             \* what the current call has done so far, in order
    provlog,           \* the index operations __init__ issued, in order
    provErr,           \* the error of the last provider call (NoError: none)
    lastGood,          \* id -> the last document stored for it (history)
    before,            \* the points of the collection when the call began
    base,              \* the points of the collection when __init__ ended
    calls,             \* calls of upsert_documents made so far
    lines,             \* load_data: the lines of the data file
    pos,               \* load_data: the number of lines read so far
    uuids,             \* load_data: the number of ids generated so far
    pool,              \* ChatLogger: self.pool (NoPool, or the pool's number)
    pools,             \* the database: the pools it has given out so far
    closedPools,       \* the database: the pools that were closed
    tableExists,       \* the database: chat_history exists
    rows,              \* the database: the rows of chat_history, in order
    cpc,               \* ChatLogger: the position of the running coroutine
    cop,               \* ChatLogger: the method called last
    cargs,             \* save_chat: the arguments (query, response)
    cfailed,           \* ChatLogger: the last call met a database error
    pool0,             \* self.pool when the last call began (history)
    rows0,             \* the rows when the last call began (history)
    cerr               \* ChatLogger: the exception that left a method

vars ==
    <<collections, providerDim, index0, probeOk, pc, actual_dim, collection_names, documents,
      metadatas, ids, i, attempt, batch_vectors, err, retval, trace, provlog,
      provErr, lastGood, before, base, calls, lines, pos, uuids,
      pool, pools, closedPools, tableExists, rows, cpc, cop, cargs, cfailed,
      pool0, rows0, cerr>>

fileVars == <<lines, pos, uuids>>
\* The state of the chat logger and of its database.
chatVars ==
    <<pool, pools, closedPools, tableExists, rows, cpc, cop, cargs, cfailed,
      pool0, rows0, cerr>>
\* What neither the knowledge base nor load_data writes.
envVars == <<providerDim, index0, chatVars>>
fixedVars == <<envVars, fileVars>>
indexVars == <<collections, fixedVars>>
initVars == <<actual_dim, probeOk, collection_names, provlog>>
argVars == <<documents, metadatas, ids>>
histVars == <<lastGood, before, base, calls>>
\* The state of the knowledge base and of load_data.
kbVars ==
    <<collections, providerDim, index0, fileVars, pc, initVars, argVars, i,
      attempt, batch_vectors, err, retval, trace, provErr, histVars>>

\* One entry of trace.
Event(ev, at, n, out, texts) ==
    [ev |-> ev, at |-> at, n |-> n, out |-> out, texts |-> texts]

\* The points of the program's collection (none when it does not exist).
Stored ==
    IF HasCollection(collections, collection_name)
    THEN collections[collection_name].points ELSE {}

\* No data file is read.
NoFile == lines = <<>> /\ pos = 0 /\ uuids = 0

\* history.py:10-11 and :58: the logger as constructed, not connected.
NoChat ==
    /\ pool = NoPool
    /\ pools = 0
    /\ closedPools = {}
    /\ tableExists = FALSE
    /\ rows = <<>>
    /\ cpc = "c_idle"
    /\ cop = "none"
    /\ cargs = <<>>
    /\ cfailed = FALSE
    /\ pool0 = NoPool
    /\ rows0 = <<>>
    /\ cerr = NoError

\* The state before __init__ runs.
InitKB ==
    /\ NoChat
    /\ collections \in InitialIndexes
    /\ index0 = collections
    /\ providerDim \in Dims
    /\ probeOk = FALSE
    /\ actual_dim = 0
    /\ collection_names = {}
    /\ documents = <<>>
    /\ metadatas = <<>>
    /\ ids = <<>>
    /\ i = 0
    /\ attempt = 0
    /\ batch_vectors = <<>>
    /\ err = NoError
    /\ retval = NoValue
    /\ trace = <<>>
    /\ provlog = <<>>
    /\ provErr = NoError
    /\ lastGood = [k \in {} |-> <<>>]
    /\ before = {}
    /\ base = {}
    /\ calls = 0

Init == InitKB /\ pc = "init_probe" /\ NoFile

\* ------------------------------------------------ KnowledgeBase.__init__
\* database.py:22-33: the probe; its failure is caught and the default used.
KB_Probe ==
    /\ pc = "init_probe"
    /\ \/ actual_dim' = providerDim /\ probeOk' = TRUE
       \/ \E e \in ProviderErrors :
             actual_dim' = DimOnProbeFailure /\ probeOk' = FALSE
    /\ pc' = "init_list"
    /\ UNCHANGED <<indexVars, collection_names, provlog, argVars, i, attempt,
                   batch_vectors, err, retval, trace, provErr, histVars>>

\* database.py:36-39: list the collections.
KB_List ==
    /\ pc = "init_list"
    /\ collection_names' = DOMAIN collections
    /\ pc' = IF collection_name \in DOMAIN collections
             THEN "init_info" ELSE "init_create"
    /\ UNCHANGED <<indexVars, actual_dim, probeOk, provlog, argVars, i, attempt,
                   batch_vectors, err, retval, trace, provErr, histVars>>

\* database.py:41-42: read the size of the existing collection, compare.
KB_Info ==
    /\ pc = "init_info"
    /\ pc' = IF SizeMismatch(collections[collection_name].size, actual_dim)
             THEN "init_delete" ELSE "init_create"
    /\ UNCHANGED <<indexVars, initVars, argVars, i, attempt,
                   batch_vectors, err, retval, trace, provErr, histVars>>

\* database.py:45-46: delete it and forget its name.
KB_Delete ==
    /\ pc = "init_delete"
    /\ collections' = DeleteCollection(collections, collection_name)
    /\ collection_names' = collection_names \ {collection_name}
    /\ provlog' = Append(provlog, [op |-> "delete", size |-> 0, distance |-> None])
    /\ pc' = "init_create"
    /\ UNCHANGED <<fixedVars, actual_dim, probeOk, argVars, i, attempt,
                   batch_vectors, err, retval, trace, provErr, histVars>>

\* database.py:49-54: create the collection when its name is not listed.
KB_Create ==
    /\ pc = "init_create"
    /\ collection_name \notin collection_names
    /\ collections' =
           CreateCollection(collections, collection_name, actual_dim, COSINE)
    /\ provlog' = Append(provlog,
           [op |-> "create", size |-> actual_dim, distance |-> COSINE])
    /\ pc' = "idle"
    /\ base' = {}
    /\ UNCHANGED <<fixedVars, actual_dim, probeOk, collection_names, argVars, i, attempt,
                   batch_vectors, err, retval, trace, provErr, lastGood, before,
                   calls>>

\* database.py:49: the name is listed, nothing to create.
KB_Reuse ==
    /\ pc = "init_create"
    /\ collection_name \in collection_names
    /\ pc' = "idle"
    /\ base' = Stored
    /\ UNCHANGED <<indexVars, initVars, argVars, i, attempt,
                   batch_vectors, err, retval, trace, provErr, lastGood, before,
                   calls>>

\* database.py:36-54: an index call of __init__ raises; nothing catches it
\* and no KnowledgeBase object comes to exist.
KB_IndexError ==
    /\ pc \in {"init_list", "init_info", "init_delete", "init_create"}
    /\ pc = "init_create" => collection_name \notin collection_names
    /\ err' \in IndexErrors
    /\ pc' = "init_raised"
    /\ UNCHANGED <<indexVars, initVars, argVars, i, attempt,
                   batch_vectors, retval, trace, provErr, histVars>>

Provision ==
    \/ KB_Probe \/ KB_List \/ KB_Info \/ KB_Delete \/ KB_Create \/ KB_Reuse
    \/ KB_IndexError

\* ------------------------------------------- KnowledgeBase.upsert_documents
\* database.py:93-95, the slices of the current batch
BatchDocs == Slice(documents, i, i + BATCH_SIZE)
BatchMetas == Slice(metadatas, i, i + BATCH_SIZE)
BatchIds == Slice(ids, i, i + BATCH_SIZE)

\* The call of the ingestion run (ingest.py:46, or a direct caller): the
\* arguments are bound and the loop variable takes the first value of
\* range(0, total_docs, BATCH_SIZE).
UD_Call ==
    /\ pc = "idle"
    /\ calls = 0
    /\ \E scheme \in Schemes, n \in 0..MaxDocs :
          /\ documents' = InputDocs(1, n)
          /\ metadatas' = InputMetas(scheme, n)
          /\ ids' = InputIds(scheme, n)
    /\ i' = 0
    /\ calls' = 1
    /\ before' = Stored
    /\ trace' = <<>>
    /\ retval' = NoValue
    /\ pc' = "ud_loop"
    /\ UNCHANGED <<indexVars, initVars, attempt, batch_vectors, err, provErr,
                   lastGood, base>>

\* A later call on the same object, with a short input whose ids repeat:
\* the same ids come again with other texts.
UD_Recall ==
    /\ pc = "idle"
    /\ calls < MaxCalls
    /\ \E n \in 1..MaxReDocs :
          /\ documents' = InputDocs(calls + 1, n)
          /\ metadatas' = InputMetas("cyclic", n)
          /\ ids' = InputIds("cyclic", n)
    /\ i' = 0
    /\ calls' = calls + 1
    /\ before' = Stored
    /\ trace' = <<>>
    /\ retval' = NoValue
    /\ pc' = "ud_loop"
    /\ UNCHANGED <<indexVars, initVars, attempt, batch_vectors, err, provErr,
                   lastGood, base>>

\* database.py:92-100: the range has a next value; the batch is sliced and
\* get_embeddings_batch is entered.
UD_NextBatch ==
    /\ pc = "ud_loop"
    /\ i \in RangeStep(Len(documents), BATCH_SIZE)
    /\ attempt' = 0
    /\ pc' = "geb_loop"
    /\ UNCHANGED <<indexVars, initVars, argVars, i, batch_vectors, err, retval,
                   trace, provErr, histVars>>

\* database.py:92: the range is exhausted; upsert_documents returns None.
UD_Return ==
    /\ pc = "ud_loop"
    /\ i \notin RangeStep(Len(documents), BATCH_SIZE)
    /\ trace' = Append(trace, Event("return", i, 0, None, <<>>))
    /\ pc' = "idle"
    /\ UNCHANGED <<indexVars, initVars, argVars, i, attempt, batch_vectors, err,
                   retval, provErr, histVars>>

\* ---------------------------------------- KnowledgeBase.get_embeddings_batch
\* The last provider error raised again.
ExhaustionErrorLast(last) == last

\* database.py:82, the error raised when the loop ends without a return;
\* last is the error of the last attempt.
ExhaustionError(last) == RetriesExhausted

\* database.py:62-71: an attempt that succeeds returns the provider's vectors.
GEB_Success ==
    /\ pc = "geb_loop"
    /\ attempt < RETRIES
    /\ batch_vectors' = EmbedBatch(providerDim, BatchDocs)
    /\ provErr' = NoError
    /\ trace' = Append(trace, Event("embed", i, attempt, "ok", BatchDocs))
    /\ pc' = "ud_points"
    /\ UNCHANGED <<indexVars, initVars, argVars, i, attempt, err, retval, histVars>>

\* database.py:62-80: an attempt that fails; a rate-limit error goes on to
\* the wait, any other error is raised again.
GEB_Failure ==
    /\ pc = "geb_loop"
    /\ attempt < RETRIES
    /\ \E e \in ProviderErrors :
          /\ err' = e
          /\ provErr' = e
          /\ trace' = Append(trace, Event("embed", i, attempt,
                 IF IsRateLimit(e) THEN "transient" ELSE "permanent", BatchDocs))
          /\ pc' = IF IsRateLimit(e) THEN "geb_wait" ELSE "ud_except"
    /\ UNCHANGED <<indexVars, initVars, argVars, i, attempt, batch_vectors, retval,
                   histVars>>

\* A wait after which the same attempt is made again.
GEB_WaitSame ==
    /\ pc = "geb_wait"
    /\ trace' = Append(trace, Event("wait", i, WaitTime(attempt), None, <<>>))
    /\ err' = NoError
    /\ pc' = "geb_loop"
    /\ UNCHANGED <<indexVars, initVars, argVars, i, attempt, batch_vectors, retval,
                   provErr, histVars>>

\* database.py:75-77: sleep, then the next value of range(retries).
GEB_Wait ==
    /\ pc = "geb_wait"
    /\ trace' = Append(trace, Event("wait", i, WaitTime(attempt), None, <<>>))
    /\ attempt' = attempt + 1
    /\ err' = NoError
    /\ pc' = "geb_loop"
    /\ UNCHANGED <<indexVars, initVars, argVars, i, batch_vectors, retval, provErr,
                   histVars>>

\* database.py:82: range(retries) is exhausted.
GEB_Exhausted ==
    /\ pc = "geb_loop"
    /\ attempt >= RETRIES
    /\ err' = ExhaustionError(provErr)
    /\ trace' = Append(trace, Event("exhausted", i, attempt, None, <<>>))
    /\ pc' = "ud_except"
    /\ UNCHANGED <<indexVars, initVars, argVars, i, attempt, batch_vectors, retval,
                   provErr, histVars>>

\* ------------------------------------------------ the rest of the batch
Range(s) == {s[k] : k \in DOMAIN s}

\* The last position of id d in the list of ids s.
LastIndexOf(s, d) == CHOOSE k \in DOMAIN s : s[k] = d /\ \A j \in DOMAIN s : j > k => s[j] # d

\* The history of what was stored: for every id of the batch, the last
\* document of the batch that has it.
Remember(good, docs, metas, dids, vectors) ==
    [d \in DOMAIN good \cup Range(dids) |->
        IF d \in Range(dids)
        THEN [text |-> docs[LastIndexOf(dids, d)],
              meta |-> metas[LastIndexOf(dids, d)],
              vector |-> vectors[LastIndexOf(dids, d)]]
        ELSE good[d]]

\* database.py:102-113: the points are built and the index accepts them.
UD_UpsertOk ==
    /\ pc = "ud_points"
    /\ LET pts == BuildPoints(BatchDocs, BatchMetas, BatchIds, batch_vectors) IN
          /\ UpsertAcceptable(collections, collection_name, pts)
          /\ collections' = UpsertInto(collections, collection_name, pts)
          /\ trace' = Append(trace, Event("upsert", i, Len(pts), "ok", <<>>))
    /\ lastGood' = Remember(lastGood, BatchDocs, BatchMetas, BatchIds, batch_vectors)
    /\ pc' = "ud_pause"
    /\ UNCHANGED <<fixedVars, initVars, argVars, i, attempt, batch_vectors, err,
                   retval, provErr, before, base, calls>>

\* database.py:110-113: the index raises (it is down, or it rejects the
\* points); nothing is written.
UD_UpsertFail ==
    /\ pc = "ud_points"
    /\ LET pts == BuildPoints(BatchDocs, BatchMetas, BatchIds, batch_vectors) IN
          /\ err' \in IF UpsertAcceptable(collections, collection_name, pts)
                      THEN IndexErrors ELSE {ErrIndexRejects}
          /\ trace' = Append(trace, Event("upsert", i, Len(pts), "error", <<>>))
    /\ pc' = "ud_except"
    /\ UNCHANGED <<indexVars, initVars, argVars, i, attempt, batch_vectors,
                   retval, provErr, histVars>>

\* A loop that goes on to the next batch without the pause.
UD_NoPause ==
    /\ pc = "ud_pause"
    /\ i' = i + BATCH_SIZE
    /\ pc' = "ud_loop"
    /\ UNCHANGED <<indexVars, initVars, argVars, attempt, batch_vectors, err,
                   retval, trace, provErr, histVars>>

\* database.py:116 and the step of the range: the pause after a stored batch.
UD_Pause ==
    /\ pc = "ud_pause"
    /\ trace' = Append(trace, Event("pause", i, BATCH_PAUSE, None, <<>>))
    /\ i' = i + BATCH_SIZE
    /\ pc' = "ud_loop"
    /\ UNCHANGED <<indexVars, initVars, argVars, attempt, batch_vectors, err,
                   retval, provErr, histVars>>

\* A handler that starts the failed batch again.
UD_ExceptAgain ==
    /\ pc = "ud_except"
    /\ trace' = Append(trace, Event("failed", i, Len(BatchDocs), None, <<>>))
    /\ err' = NoError
    /\ provErr' = NoError
    /\ pc' = "ud_loop"
    /\ UNCHANGED <<indexVars, initVars, argVars, i, attempt, batch_vectors, retval,
                   histVars>>

\* database.py:118-119: the handler of the batch; an exception it does not
\* take leaves upsert_documents.
UD_Except ==
    /\ pc = "ud_except"
    /\ IF HandlerCatches(err)
       THEN /\ trace' = Append(trace, Event("failed", i, Len(BatchDocs), None, <<>>))
            /\ err' = NoError
            /\ provErr' = NoError
            /\ i' = i + BATCH_SIZE
            /\ pc' = "ud_loop"
       ELSE /\ pc' = "ud_raised"
            /\ UNCHANGED <<trace, err, provErr, i>>
    /\ UNCHANGED <<indexVars, initVars, argVars, attempt, batch_vectors, retval,
                   histVars>>

Batches ==
    \/ UD_NextBatch \/ UD_Return
    \/ GEB_Success \/ GEB_Failure \/ GEB_Wait \/ GEB_Exhausted
    \/ UD_UpsertOk \/ UD_UpsertFail \/ UD_Pause \/ UD_Except

\* The program: a KnowledgeBase is constructed and one input is ingested.
Next == Provision \/ UD_Call \/ Batches

Spec == Init /\ [][Next]_vars

\* Re-ingestion: a constructed KnowledgeBase (its collection fresh, or reused
\* with a point of an earlier run) on which upsert_documents is called
\* several times.
InitReady ==
    /\ NoFile
    /\ NoChat
    /\ providerDim \in Dims
    /\ probeOk = TRUE
    /\ \/ /\ index0 = [n \in {OtherName} |-> OtherCollection]
          /\ collections = CreateCollection(index0, collection_name, providerDim, COSINE)
          /\ collection_names = {OtherName}
          /\ provlog = <<[op |-> "create", size |-> providerDim, distance |-> COSINE]>>
       \/ /\ index0 = IndexWith(providerDim, {OldPoint(providerDim)})
          /\ collections = index0
          /\ collection_names = {OtherName, collection_name}
          /\ provlog = <<>>
    /\ base = Stored
    /\ pc = "idle"
    /\ actual_dim = providerDim
    /\ documents = <<>>
    /\ metadatas = <<>>
    /\ ids = <<>>
    /\ i = 0
    /\ attempt = 0
    /\ batch_vectors = <<>>
    /\ err = NoError
    /\ retval = NoValue
    /\ trace = <<>>
    /\ provErr = NoError
    /\ lastGood = [k \in {} |-> <<>>]
    /\ before = {}
    /\ calls = 0

\* One call of upsert_documents on a constructed KnowledgeBase, run to its
\* end: the one thread of the program goes on as long as it has a next step
\* (a sleep ends, and a call to the provider or to the index returns or
\* raises).  Every step of the loop moves pc.
NextTerminate == UD_Call \/ Batches

SpecTerminate == InitReady /\ [][NextTerminate]_vars /\ WF_pc(Batches)

NextReingest == UD_Recall \/ Batches

SpecReingest == InitReady /\ [][NextReingest]_vars

\* --------------------------------------------------- KnowledgeBase.search
\* A lookup that finds no key.
GetNothing(payload, key, default) == default

\* dict.get(key, default)
Get(payload, key, default) ==
    IF key \in DOMAIN payload THEN payload[key] ELSE default

\* database.py:144, f"[Source: {source}]\n{text}"
Block(hit) ==
    <<"[Source: ", Get(hit.payload, "source", <<"Unknown">>), "]\n",
      Get(hit.payload, "text", <<>>)>>

\* database.py:146, "\n\n".join(context_parts)
RECURSIVE Join(_)
Join(parts) ==
    IF parts = <<>> THEN <<>>
    ELSE IF Len(parts) = 1 THEN Head(parts)
    ELSE Head(parts) \o <<"\n\n">> \o Join(Tail(parts))

FormatHits(hits) == Join([k \in DOMAIN hits |-> Block(hits[k])])

\* A test that never finds the result empty.
EmptyResultNever(hits) == FALSE

\* database.py:137, "if not search_result"
EmptyResult(hits) == hits = <<>>

\* database.py:137-146, the string returned for the hits of the index
ResultFor(hits) == IF EmptyResult(hits) THEN NoInfo ELSE FormatHits(hits)

\* database.py:148, "except Exception" takes every exception value.
SearchCatches(e) == TRUE

\* The index ranks the points by a score the program does not see: here by
\* id, upwards or downwards.
RECURSIVE Ranked(_, _)
Ranked(points, order) ==
    IF points = {} THEN <<>>
    ELSE LET p == CHOOSE x \in points :
                    \A y \in points :
                        IF order = "up" THEN x.id <= y.id ELSE x.id >= y.id
         IN  <<p>> \o Ranked(points \ {p}, order)

\* client.search(collection_name, query_vector, limit): the best limit hits.
TopHits(points, limit, order) ==
    SubSeq(Ranked(points, order), 1, Min(limit, Cardinality(points)))

\* What search finds in the index: the number of points of the collection,
\* or -1 when the collection does not exist.
Seen ==
    IF HasCollection(collections, collection_name) THEN Cardinality(Stored) ELSE -1

\* database.py:121-123: search is called.
S_Call ==
    /\ pc = "idle"
    /\ pc' = "s_embed"
    /\ trace' = <<>>
    /\ retval' = NoValue
    /\ UNCHANGED <<indexVars, initVars, argVars, i, attempt, batch_vectors, err,
                   provErr, histVars>>

\* database.py:125-129: the query is embedded.
S_EmbedOk ==
    /\ pc = "s_embed"
    /\ pc' = "s_query"
    /\ UNCHANGED <<indexVars, initVars, argVars, i, attempt, batch_vectors, err,
                   retval, trace, provErr, histVars>>

\* database.py:125-129, 148-150: the provider raises; the handler returns
\* the error string.
S_EmbedFail ==
    /\ pc = "s_embed"
    /\ \E e \in ProviderErrors :
          IF SearchCatches(e)
          THEN /\ retval' = SearchError
               /\ trace' = Append(trace, Event("searched", Seen, 0, "embed_error", <<>>))
               /\ pc' = "idle"
               /\ err' = NoError
          ELSE /\ pc' = "s_raised"
               /\ err' = e
               /\ UNCHANGED <<retval, trace>>
    /\ UNCHANGED <<indexVars, initVars, argVars, i, attempt, batch_vectors,
                   provErr, histVars>>

\* database.py:131-146: the index answers; the hits are formatted.
S_QueryOk ==
    /\ pc = "s_query"
    /\ HasCollection(collections, collection_name)
    /\ \E order \in {"up", "down"} :
          LET hits == TopHits(Stored, N_RESULTS, order) IN
             /\ retval' = ResultFor(hits)
             /\ trace' = Append(trace, Event("searched", Seen, Len(hits), "ok", hits))
    /\ pc' = "idle"
    /\ UNCHANGED <<indexVars, initVars, argVars, i, attempt, batch_vectors, err,
                   provErr, histVars>>

\* database.py:131-135, 148-150: the index raises (it is down, or the
\* collection does not exist); the handler returns the error string.
S_QueryFail ==
    /\ pc = "s_query"
    /\ \E e \in IF HasCollection(collections, collection_name)
                THEN IndexErrors ELSE {ErrNoCollection} :
          IF SearchCatches(e)
          THEN /\ retval' = SearchError
               /\ trace' = Append(trace, Event("searched", Seen, 0, "query_error", <<>>))
               /\ pc' = "idle"
               /\ err' = NoError
          ELSE /\ pc' = "s_raised"
               /\ err' = e
               /\ UNCHANGED <<retval, trace>>
    /\ UNCHANGED <<indexVars, initVars, argVars, i, attempt, batch_vectors,
                   provErr, histVars>>

Search == S_Call \/ S_EmbedOk \/ S_EmbedFail \/ S_QueryOk \/ S_QueryFail

\* Another client of the same index deletes the collection (as the __init__
\* of another KnowledgeBase does at database.py:45) while this one is idle.
IndexDropped ==
    /\ pc = "idle"
    /\ HasCollection(collections, collection_name)
    /\ collections' = DeleteCollection(collections, collection_name)
    /\ UNCHANGED <<fixedVars, pc, initVars, argVars, i, attempt, batch_vectors, err,
                   retval, trace, provErr, histVars>>

\* The query path: a constructed KnowledgeBase that is searched between
\* ingestions, over an index that others may change.
NextSearch == UD_Recall \/ Batches \/ Search \/ IndexDropped

SpecSearch == InitReady /\ [][NextSearch]_vars

\* ------------------------------------------------------ ingest.load_data
\* The kinds of lines of the data file: text that is no JSON, a JSON array,
\* and JSON objects with and without id, text and metadata.
LineKinds == {"garbage", "array", "full", "noid", "notext", "emptytext"}

\* The line of kind kind at position k of the file (its id and text are
\* those of the position).
RawLine(kind, k) ==
    CASE kind = "garbage" -> [shape |-> "garbage", fields |-> NoMeta]
      [] kind = "array" -> [shape |-> "array", fields |-> NoMeta]
      [] kind = "full" ->
            [shape |-> "object",
             fields |-> [id |-> k, text |-> TextOf(1, k),
                         metadata |-> [source |-> <<"x">>]]]
      [] kind = "noid" -> [shape |-> "object", fields |-> [text |-> TextOf(1, k)]]
      [] kind = "notext" ->
            [shape |-> "object",
             fields |-> [id |-> k, metadata |-> [source |-> <<"x">>]]]
      [] OTHER -> [shape |-> "object", fields |-> [id |-> k, text |-> <<>>]]

Files == UNION {[1..n -> LineKinds] : n \in 0..MaxLines}

\* ingest.py:25, json.loads(line): an error for text that is no JSON, else
\* the value and its Python type.
JsonLoads(raw) ==
    CASE raw.shape = "garbage" -> [ok |-> FALSE, type |-> "none", value |-> NoMeta]
      [] raw.shape = "array" -> [ok |-> TRUE, type |-> "list", value |-> NoMeta]
      [] OTHER -> [ok |-> TRUE, type |-> "dict", value |-> raw.fields]

ErrJson == [type |-> "JSONDecodeError", msg |-> <<"Expecting", "value">>]
ErrAttribute == [type |-> "AttributeError", msg |-> <<"no", "attribute", "get">>]

\* ingest.py:41, "except json.JSONDecodeError"
LdCatches(e) == e.type = "JSONDecodeError"

\* ingest.py:32, str(uuid.uuid4()): the n-th generated id, unlike any other.
Uuid4(n) == 1000 + n

\* ingest.py:27-32: the id of the record, or a generated one when it has
\* none (or a false one).
HasId(item) == "id" \in DOMAIN item /\ item.id # 0

\* ingest.py:34-37: the record has a text that is not empty.
HasText(item) == "text" \in DOMAIN item /\ item.text # <<>>

\* ingest.py:10-15: the data file is looked for; KnowledgeBase() follows.
LD_Start ==
    /\ pc = "ld_start"
    /\ \/ pc' = "init_probe"
       \/ pc' = "ld_done"
    /\ UNCHANGED <<indexVars, initVars, argVars, i, attempt, batch_vectors, err,
                   retval, trace, provErr, histVars>>

\* ingest.py:17-23: the lists are empty and the file is opened.
LD_Open ==
    /\ pc = "idle"
    /\ calls = 0
    /\ pc' = "ld_read"
    /\ documents' = <<>>
    /\ metadatas' = <<>>
    /\ ids' = <<>>
    /\ UNCHANGED <<indexVars, initVars, i, attempt, batch_vectors, err,
                   retval, trace, provErr, histVars>>

\* ingest.py:24-25, 41-42: the line is no JSON; it is skipped.
LD_SkipLine ==
    /\ pc = "ld_read"
    /\ pos < Len(lines)
    /\ ~JsonLoads(RawLine(lines[pos + 1], pos + 1)).ok
    /\ IF LdCatches(ErrJson)
       THEN pos' = pos + 1 /\ pc' = "ld_read" /\ err' = NoError
       ELSE pos' = pos /\ pc' = "ld_raised" /\ err' = ErrJson
    /\ UNCHANGED <<collections, envVars, lines, uuids, initVars, argVars, i, attempt,
                   batch_vectors, retval, trace, provErr, histVars>>

\* ingest.py:25-27, 41: the line is JSON but no object; item.get raises an
\* AttributeError.
LD_NoRecord ==
    /\ pc = "ld_read"
    /\ pos < Len(lines)
    /\ JsonLoads(RawLine(lines[pos + 1], pos + 1)).ok
    /\ JsonLoads(RawLine(lines[pos + 1], pos + 1)).type # "dict"
    /\ IF LdCatches(ErrAttribute)
       THEN pos' = pos + 1 /\ pc' = "ld_read" /\ err' = NoError
       ELSE pos' = pos /\ pc' = "ld_raised" /\ err' = ErrAttribute
    /\ UNCHANGED <<collections, envVars, lines, uuids, initVars, argVars, i, attempt,
                   batch_vectors, retval, trace, provErr, histVars>>

\* ingest.py:25-40: the line is an object; it is kept when it has a text.
LD_Record ==
    /\ pc = "ld_read"
    /\ pos < Len(lines)
    /\ JsonLoads(RawLine(lines[pos + 1], pos + 1)).type = "dict"
    /\ LET item == JsonLoads(RawLine(lines[pos + 1], pos + 1)).value
           doc_id == IF HasId(item) THEN item.id ELSE Uuid4(uuids + 1)
           meta == Get(item, "metadata", NoMeta)
       IN  /\ uuids' = IF HasId(item) THEN uuids ELSE uuids + 1
           /\ IF HasText(item)
              THEN /\ ids' = Append(ids, doc_id)
                   /\ documents' = Append(documents, item.text)
                   /\ metadatas' = Append(metadatas, meta)
              ELSE UNCHANGED argVars
    /\ pos' = pos + 1
    /\ UNCHANGED <<collections, envVars, lines, pc, initVars, i, attempt,
                   batch_vectors, err, retval, trace, provErr, histVars>>

\* ingest.py:44-46: the file is read and there are documents;
\* upsert_documents is called with the three lists.
LD_Ingest ==
    /\ pc = "ld_read"
    /\ pos = Len(lines)
    /\ documents # <<>>
    /\ i' = 0
    /\ calls' = 1
    /\ before' = Stored
    /\ trace' = <<>>
    /\ retval' = NoValue
    /\ pc' = "ud_loop"
    /\ UNCHANGED <<indexVars, initVars, argVars, attempt, batch_vectors, err,
                   provErr, lastGood, base>>

\* ingest.py:48-49: the file is read and there is nothing to ingest.
LD_NoData ==
    /\ pc = "ld_read"
    /\ pos = Len(lines)
    /\ documents = <<>>
    /\ pc' = "ld_done"
    /\ UNCHANGED <<indexVars, initVars, argVars, i, attempt, batch_vectors, err,
                   retval, trace, provErr, histVars>>

\* ingest.py:47: upsert_documents has returned.
LD_Success ==
    /\ pc = "idle"
    /\ calls = 1
    /\ pc' = "ld_done"
    /\ UNCHANGED <<indexVars, initVars, argVars, i, attempt, batch_vectors, err,
                   retval, trace, provErr, histVars>>

LoadData ==
    \/ LD_Start \/ LD_Open \/ LD_SkipLine \/ LD_NoRecord \/ LD_Record
    \/ LD_Ingest \/ LD_NoData \/ LD_Success

\* The ingestion script: load_data on a data file.
InitIngest ==
    /\ InitKB
    /\ pc = "ld_start"
    /\ lines \in Files
    /\ pos = 0
    /\ uuids = 0

NextIngest == LoadData \/ Provision \/ Batches

SpecIngest == InitIngest /\ [][NextIngest]_vars

\* ------------------------------------------------------ history.ChatLogger
\* What the database client (asyncpg) may raise.
ErrDbConnect == [type |-> "OSError", msg |-> <<"connection", "refused">>]
ErrDbAcquire == [type |-> "TooManyConnectionsError", msg |-> <<"too", "many", "clients">>]
ErrDbQuery == [type |-> "PostgresError", msg |-> <<"query", "failed">>]
ErrPoolClosed == [type |-> "InterfaceError", msg |-> <<"pool", "is", "closed">>]
ErrNoTable == [type |-> "UndefinedTableError", msg |-> <<"relation", "missing">>]

\* What save_chat may be asked to log.
Queries == {"hello", "price"}
Responses == {"hi", "unknown"}

\* history.py:34 and :54, "except Exception" takes every exception value.
ChatCatches(e) == TRUE

\* The pool left as it is.
PoolKept(p) == p

\* history.py:36, the pool after a failure of connect
PoolAfterFailure(p) == NoPool

\* history.py:39 and :44, the truth value of self.pool
PoolIsSet(p) == p # NoPool

\* history.py:13-21: connect is called and asks for a pool.
CL_Connect ==
    /\ cpc = "c_idle"
    /\ pools < MaxPools
    /\ cop' = "connect"
    /\ cfailed' = FALSE
    /\ pool0' = pool
    /\ rows0' = rows
    /\ cpc' = "connect_pool"
    /\ UNCHANGED <<kbVars, pool, pools, closedPools, tableExists, rows, cargs, cerr>>

\* history.py:21: the database gives a new pool, which is assigned.
CL_CreatePool ==
    /\ cpc = "connect_pool"
    /\ pools' = pools + 1
    /\ pool' = pools + 1
    /\ cpc' = "connect_acquire"
    /\ UNCHANGED <<kbVars, closedPools, tableExists, rows, cop, cargs, cfailed,
                   pool0, rows0, cerr>>

\* history.py:24: a connection of the pool is acquired.
CL_ConnectAcquire ==
    /\ cpc = "connect_acquire"
    /\ cpc' = "connect_exec"
    /\ UNCHANGED <<kbVars, pool, pools, closedPools, tableExists, rows, cop, cargs,
                   cfailed, pool0, rows0, cerr>>

\* history.py:25-33: the table is created if missing; connect returns.
CL_CreateTable ==
    /\ cpc = "connect_exec"
    /\ tableExists' = TRUE
    /\ cpc' = "c_idle"
    /\ UNCHANGED <<kbVars, pool, pools, closedPools, rows, cop, cargs, cfailed,
                   pool0, rows0, cerr>>

\* history.py:21-36: one of the three database calls of connect raises; the
\* handler sets the pool to None and connect returns.
CL_ConnectFail ==
    /\ cpc \in {"connect_pool", "connect_acquire", "connect_exec"}
    /\ \E e \in CASE cpc = "connect_pool" -> {ErrDbConnect}
                  [] cpc = "connect_acquire" -> {ErrDbAcquire}
                  [] OTHER -> {ErrDbQuery} :
          IF ChatCatches(e)
          THEN /\ pool' = PoolAfterFailure(pool)
               /\ cfailed' = TRUE
               /\ cpc' = "c_idle"
               /\ UNCHANGED cerr
          ELSE /\ cerr' = e
               /\ cpc' = "c_raised"
               /\ UNCHANGED <<pool, cfailed>>
    /\ UNCHANGED <<kbVars, pools, closedPools, tableExists, rows, cop, cargs,
                   pool0, rows0>>

\* history.py:38-40: disconnect closes the pool when there is one.  An
\* error of close is not handled.
CL_Disconnect ==
    /\ cpc = "c_idle"
    /\ cop' = "disconnect"
    /\ pool0' = pool
    /\ rows0' = rows
    /\ \/ /\ closedPools' = IF PoolIsSet(pool) THEN closedPools \cup {pool}
                            ELSE closedPools
          /\ cfailed' = FALSE
          /\ UNCHANGED <<cpc, cerr>>
       \/ /\ PoolIsSet(pool)
          /\ cerr' = ErrDbQuery
          /\ cfailed' = TRUE
          /\ cpc' = "c_raised"
          /\ UNCHANGED closedPools
    /\ UNCHANGED <<kbVars, pool, pools, tableExists, rows, cargs>>

\* history.py:42-46: save_chat without a pool warns and returns.
CL_SaveSkip ==
    /\ cpc = "c_idle"
    /\ ~PoolIsSet(pool)
    /\ \E q \in Queries, r \in Responses : cargs' = <<q, r>>
    /\ cop' = "save_chat"
    /\ cfailed' = FALSE
    /\ pool0' = pool
    /\ rows0' = rows
    /\ UNCHANGED <<kbVars, pool, pools, closedPools, tableExists, rows, cpc, cerr>>

\* history.py:42-49: save_chat with a pool goes on to acquire a connection.
CL_Save ==
    /\ cpc = "c_idle"
    /\ PoolIsSet(pool)
    /\ Len(rows) < MaxChats
    /\ \E q \in Queries, r \in Responses : cargs' = <<q, r>>
    /\ cop' = "save_chat"
    /\ cfailed' = FALSE
    /\ pool0' = pool
    /\ rows0' = rows
    /\ cpc' = "save_acquire"
    /\ UNCHANGED <<kbVars, pool, pools, closedPools, tableExists, rows, cerr>>

\* history.py:49: a connection of the (open) pool is acquired.
CL_SaveAcquire ==
    /\ cpc = "save_acquire"
    /\ pool \notin closedPools
    /\ cpc' = "save_exec"
    /\ UNCHANGED <<kbVars, pool, pools, closedPools, tableExists, rows, cop, cargs,
                   cfailed, pool0, rows0, cerr>>

\* history.py:50-53: the row is inserted; save_chat returns.
CL_Insert ==
    /\ cpc = "save_exec"
    /\ tableExists
    /\ rows' = Append(rows, cargs)
    /\ cpc' = "c_idle"
    /\ UNCHANGED <<kbVars, pool, pools, closedPools, tableExists, cop, cargs,
                   cfailed, pool0, rows0, cerr>>

\* history.py:48-55: acquire raises (always on a closed pool) or the insert
\* raises; the handler prints and save_chat returns.
CL_SaveFail ==
    /\ cpc \in {"save_acquire", "save_exec"}
    /\ \E e \in CASE cpc = "save_acquire" /\ pool \in closedPools -> {ErrPoolClosed}
                  [] cpc = "save_acquire" -> {ErrDbAcquire}
                  [] tableExists -> {ErrDbQuery}
                  [] OTHER -> {ErrNoTable} :
          IF ChatCatches(e)
          THEN /\ cfailed' = TRUE
               /\ cpc' = "c_idle"
               /\ UNCHANGED cerr
          ELSE /\ cerr' = e
               /\ cpc' = "c_raised"
               /\ UNCHANGED cfailed
    /\ UNCHANGED <<kbVars, pool, pools, closedPools, tableExists, rows, cop, cargs,
                   pool0, rows0>>

Chat ==
    \/ CL_Connect \/ CL_CreatePool \/ CL_ConnectAcquire \/ CL_CreateTable
    \/ CL_ConnectFail \/ CL_Disconnect
    \/ CL_SaveSkip \/ CL_Save \/ CL_SaveAcquire \/ CL_Insert \/ CL_SaveFail

\* The chat logger of a running service: db_logger (history.py:58) on which
\* connect, save_chat and disconnect are called in any order.
InitChat ==
    /\ InitReady
    /\ providerDim = DEFAULT_DIM
    /\ provlog = <<>>

NextChat == Chat

SpecChat == InitChat /\ [][NextChat]_vars

\* ======================================================================
\* Observations on the trace of the current call
\* ======================================================================
N == Len(documents)

\* ceil(n / b)
CeilDiv(n, b) == (n + b - 1) \div b

\* upsert_documents has returned to its caller.
Returned == pc = "idle" /\ trace # <<>> /\ trace[Len(trace)].ev = "return"

EventsOf(kind) == {k \in DOMAIN trace : trace[k].ev = kind}

\* The starts of the batches, in the order in which their first embedding
\* call was made.
IsFirstAttempt(e) == e.ev = "embed" /\ e.n = 0
AttemptedStarts ==
    LET firsts == SelectSeq(trace, IsFirstAttempt)
    IN  [k \in DOMAIN firsts |-> firsts[k].at]

\* The starts of the batches that failed: a non-retryable embedding error,
\* the retries exhausted, or the index write refused.
FailedStarts ==
    {trace[k].at : k \in
        {j \in DOMAIN trace :
            \/ trace[j].ev = "embed" /\ trace[j].out = "permanent"
            \/ trace[j].ev = "exhausted"
            \/ trace[j].ev = "upsert" /\ trace[j].out = "error"}}

\* The number of documents of the batch that starts at position at.
BatchLen(at) == Min(BATCH_SIZE, N - at)

RECURSIVE SumBatchLen(_)
SumBatchLen(starts) ==
    IF starts = {} THEN 0
    ELSE LET at == CHOOSE x \in starts : TRUE
         IN  BatchLen(at) + SumBatchLen(starts \ {at})

IdsDistinct == \A j, k \in DOMAIN ids : j # k => ids[j] # ids[k]

\* ----------------------------------------------------------------------
\* C1  Batch failure isolation in upsert_documents.  No exception leaves
\* upsert_documents; when it returns, every batch has been attempted, in
\* input order; and, when the collection was empty before the call and the
\* ids are pairwise distinct, the number of stored documents is N minus the
\* number of documents of the batches that failed.
\* ----------------------------------------------------------------------
C1_BatchFailureIsolation ==
    /\ pc # "ud_raised"
    /\ Returned =>
          /\ AttemptedStarts = [k \in 1..CeilDiv(N, BATCH_SIZE) |-> (k - 1) * BATCH_SIZE]
          /\ (before = {} /\ IdsDistinct) =>
                Cardinality(Stored) = N - SumBatchLen(FailedStarts)

\* A run of two batches from an empty collection: the first fails, the
\* second is stored.
C1_Witness ==
    /\ Returned
    /\ before = {} /\ IdsDistinct
    /\ N > BATCH_SIZE
    /\ FailedStarts = {0}
    /\ Cardinality(Stored) = N - BATCH_SIZE

\* ----------------------------------------------------------------------
\* One invocation of get_embeddings_batch: the provider calls, waits and
\* the exhaustion of the batch that starts at position at, in order.
\* ----------------------------------------------------------------------
InvocationOf(at) ==
    LET Mine(e) == e.at = at /\ e.ev \in {"embed", "wait", "exhausted"}
    IN  SelectSeq(trace, Mine)

StartsSeen == {trace[k].at : k \in EventsOf("embed")}

\* The invocation for the batch at position at is over.
Finished(at) == at # i \/ pc \notin {"geb_loop", "geb_wait"}

CountOf(s, kind, out) ==
    Cardinality({k \in DOMAIN s : s[k].ev = kind /\ s[k].out = out})

CallsIn(s) == Cardinality({k \in DOMAIN s : s[k].ev = "embed"})

\* The errors that carry the provider's rate-limit, quota or resource
\* signal in their message.
SignalErrors == {ErrQuota429, ErrQuota, ErrResource, ErrPermission}

\* The shape of the events of one invocation.
C2_ShapeOf(s) ==
    /\ CallsIn(s) <= 3
    /\ \A k \in DOMAIN s :
          /\ s[k].ev = "embed" =>
                /\ s[k].n = Cardinality({j \in 1..(k - 1) : s[j].ev = "embed"})
                /\ s[k].out = "transient" /\ k < Len(s) =>
                      s[k + 1].ev = "wait" /\ s[k + 1].n = (s[k].n + 1) * 10
                /\ s[k].out = "ok" => k = Len(s)
          /\ s[k].ev = "wait" =>
                /\ k > 1 /\ s[k - 1].ev = "embed" /\ s[k - 1].out = "transient"
                /\ s[k].n = (s[k - 1].n + 1) * 10
                /\ s[k - 1].n + 1 < 3 /\ k < Len(s) =>
                      s[k + 1].ev = "embed" /\ s[k + 1].n = s[k - 1].n + 1
          /\ s[k].ev = "exhausted" =>
                k = Len(s) /\ CountOf(s, "embed", "transient") = 3

\* ----------------------------------------------------------------------
\* C2  Bounded retry in get_embeddings_batch.  One invocation makes at most
\* 3 provider calls; the attempts are numbered 0, 1, 2; a transient failure
\* at attempt a is followed by a wait of (a + 1) x 10 and, while an attempt
\* remains (a + 1 < 3), by the call of attempt a + 1; a success ends the
\* invocation and hands the provider's vectors to the caller; and the
\* invocation raises the retry-exhausted error exactly when 3 attempts
\* failed transiently.
\* ----------------------------------------------------------------------
C2_BoundedRetry ==
    /\ \A at \in StartsSeen :
          /\ C2_ShapeOf(InvocationOf(at))
          /\ (Finished(at) /\ CountOf(InvocationOf(at), "embed", "transient") = 3) =>
                \E k \in DOMAIN trace : trace[k].ev = "exhausted" /\ trace[k].at = at
    /\ (pc = "ud_except" /\ trace[Len(trace)].ev \in {"embed", "exhausted"}) =>
          (err = RetriesExhausted <=> trace[Len(trace)].ev = "exhausted")
    /\ pc = "ud_points" =>
          /\ trace[Len(trace)].ev = "embed" /\ trace[Len(trace)].out = "ok"
          /\ Len(batch_vectors) = BatchLen(i)
          /\ \A k \in 1..BatchLen(i) :
                batch_vectors[k] = [dim |-> providerDim, of |-> documents[i + k]]

\* Three transient failures, the waits 10, 20, 30, and the retry-exhausted
\* error in flight.
C2_Witness ==
    /\ pc = "ud_except"
    /\ err = RetriesExhausted
    /\ LET s == InvocationOf(i) IN
          /\ CallsIn(s) = 3
          /\ Len(s) = 7
          /\ s[2].n = 10 /\ s[4].n = 20 /\ s[6].n = 30

\* ----------------------------------------------------------------------
\* C3  Retry backoff timing as claimed: the wait after the k-th failed
\* attempt is k x 10 for k = 1, 2, 3, each of the three waits is followed
\* by a retry, and the retry-exhausted error is raised directly by a failed
\* attempt (the 4th), with no wait between the last provider call and the
\* raise.
\* ----------------------------------------------------------------------
C3_BackoffAsClaimed ==
    \A k \in DOMAIN trace :
        /\ trace[k].ev = "wait" =>
              /\ trace[k].n = (trace[k - 1].n + 1) * 10
              /\ trace[k].n \in {10, 20, 30}
              /\ k < Len(trace) => trace[k + 1].ev = "embed"
        /\ trace[k].ev = "exhausted" =>
              /\ trace[k - 1].ev = "embed"
              /\ trace[k - 1].out = "transient"
              /\ trace[k - 1].n = 3

\* ----------------------------------------------------------------------
\* C4  Non-retryable errors in get_embeddings_batch.  A provider error that
\* does not carry the rate-limit, quota or resource signal is raised at
\* once: the exception in flight is that same error, and neither a wait nor
\* another provider call follows the failed call.  The retry-exhausted
\* error is no provider error, so the caller can tell the two apart.
\* ----------------------------------------------------------------------
C4_NonRetryable ==
    /\ (pc = "geb_wait") => provErr \in SignalErrors
    /\ (pc = "ud_except" /\ trace[Len(trace)].ev = "embed") =>
          /\ provErr \in ProviderErrors \ SignalErrors
          /\ err = provErr
    /\ (pc = "ud_except" /\ trace[Len(trace)].ev = "exhausted") =>
          /\ err \notin ProviderErrors
          /\ err # provErr
    /\ \A k \in DOMAIN trace :
          (trace[k].ev = "embed" /\ trace[k].out = "permanent" /\ k < Len(trace)) =>
              trace[k + 1].ev = "failed" /\ trace[k + 1].at = trace[k].at

\* A non-retryable error at the second attempt, in flight to the caller.
C4_Witness ==
    /\ pc = "ud_except"
    /\ err = ErrInvalid
    /\ trace[Len(trace)].ev = "embed"
    /\ trace[Len(trace)].n = 1

\* The embedding calls of the current call, in order, and their texts.
IsEmbed(e) == e.ev = "embed"
EmbedCalls == SelectSeq(trace, IsEmbed)

RECURSIVE ConcatTexts(_)
ConcatTexts(s) == IF s = <<>> THEN <<>> ELSE Head(s).texts \o ConcatTexts(Tail(s))

AllEmbedsOk == \A k \in DOMAIN EmbedCalls : EmbedCalls[k].out = "ok"

\* ----------------------------------------------------------------------
\* C5  Number of embedding calls.  When upsert_documents has returned and
\* every embedding call succeeded, it has made exactly ceil(N / BATCH_SIZE)
\* embedding calls, each on at most BATCH_SIZE texts, and the texts of the
\* calls, in the order of the calls, are the documents in input order.
\* ----------------------------------------------------------------------
C5_EmbeddingCalls ==
    (Returned /\ AllEmbedsOk) =>
        /\ Len(EmbedCalls) = CeilDiv(N, BATCH_SIZE)
        /\ \A k \in DOMAIN EmbedCalls : Len(EmbedCalls[k].texts) <= BATCH_SIZE
        /\ ConcatTexts(EmbedCalls) = documents

\* A run of a full batch and a partial batch, every call successful.
C5_Witness ==
    /\ Returned /\ AllEmbedsOk
    /\ N > BATCH_SIZE /\ N % BATCH_SIZE # 0
    /\ Len(EmbedCalls) = 2

\* ======================================================================
\* Provisioning
\* ======================================================================
InitPcs == {"init_probe", "init_list", "init_info", "init_delete", "init_create"}

\* __init__ has returned: the KnowledgeBase object exists.
Constructed == pc \notin InitPcs /\ pc # "init_raised"

\* The program's collection as it was before the program started.
Existed == HasCollection(index0, collection_name)
Was == index0[collection_name]

\* ----------------------------------------------------------------------
\* C6  Dimension reconciliation.  When the collection existed with
\* dimension D1 and the probe returned D2 # D1, then once __init__ has
\* returned the index operations it issued are a delete followed by a
\* create with dimension D2 and cosine distance; the collection exists with
\* dimension D2 and holds none of the points it held before; right after
\* __init__ it is empty; and no upsert is issued before __init__ returns.
\* ----------------------------------------------------------------------
C6_DimensionReconciliation ==
    /\ ~Constructed => trace = <<>> /\ calls = 0
    /\ (Constructed /\ Existed /\ probeOk /\ providerDim # Was.size) =>
          /\ provlog = <<[op |-> "delete", size |-> 0, distance |-> None],
                         [op |-> "create", size |-> providerDim, distance |-> "Cosine"]>>
          /\ HasCollection(collections, collection_name)
          /\ collections[collection_name].size = providerDim
          /\ collections[collection_name].distance = "Cosine"
          /\ Stored \cap Was.points = {}
          /\ calls = 0 => Stored = {}

\* The collection held a point at dimension D1, the probe returned D2, and
\* a batch has since been written into the recreated collection.
C6_Witness ==
    /\ Constructed /\ Existed /\ probeOk /\ providerDim # Was.size
    /\ Was.points # {}
    /\ Len(provlog) = 2
    /\ Stored # {}

\* ----------------------------------------------------------------------
\* C7  Probe failure fallback.  A failed probe does not end __init__: it
\* goes on with dimension 768 (if __init__ is left by an exception, the
\* exception is the index's), and once __init__ has returned the
\* collection exists with dimension 768.
\* ----------------------------------------------------------------------
C7_ProbeFailureFallback ==
    (pc # "init_probe" /\ ~probeOk) =>
        /\ actual_dim = 768
        /\ pc = "init_raised" => err \in IndexErrors
        /\ Constructed =>
              /\ HasCollection(collections, collection_name)
              /\ collections[collection_name].size = 768

\* The probe failed against a collection of another dimension, which has
\* been replaced by one of dimension 768.
C7_Witness ==
    /\ Constructed /\ ~probeOk
    /\ Existed /\ Was.size # 768
    /\ collections[collection_name].size = 768

\* ======================================================================
\* Search
\* ======================================================================
\* search has returned to its caller; Found is what it found in the index
\* (the number of points, -1 for a missing collection) and Outcome how its
\* two remote calls went.
SearchReturned == pc = "idle" /\ trace # <<>> /\ trace[Len(trace)].ev = "searched"
Found == trace[Len(trace)].at
Outcome == trace[Len(trace)].out

\* ----------------------------------------------------------------------
\* C8  search on an empty or missing collection, as claimed: it never
\* raises and it returns the sentinel string.
\* ----------------------------------------------------------------------
C8_SentinelAsClaimed ==
    /\ pc # "s_raised"
    /\ (SearchReturned /\ Found \in {0, -1}) => retval = NoInfo

\* C8 as amended.  search never raises.  On an empty collection it returns
\* the sentinel exactly when the query embedding and the index query both
\* succeeded, and the error string otherwise; on a collection that does not
\* exist the index query fails, so it returns the error string.
C8_EmptyOrMissing ==
    /\ pc # "s_raised"
    /\ (SearchReturned /\ Found \in {0, -1}) =>
          /\ retval \in {<<"No relevant information found in the knowledge base.">>,
                         <<"Error searching knowledge base.">>}
          /\ retval = <<"No relevant information found in the knowledge base.">>
                <=> Outcome = "ok"
          /\ Found = -1 => retval = <<"Error searching knowledge base.">>

\* search has returned the error string for a collection that does not
\* exist, after the query was embedded.
C8_Witness ==
    /\ SearchReturned
    /\ Found = -1
    /\ Outcome = "query_error"
    /\ retval = SearchError

\* ======================================================================
\* load_data
\* ======================================================================
\* The positions of the well-formed lines: JSON objects with a text that is
\* not empty.
WellFormed == {k \in DOMAIN lines : lines[k] \in {"full", "noid"}}

\* The k-th of a set of positions, in increasing order.
RECURSIVE Ascending(_)
Ascending(ps) ==
    IF ps = {} THEN <<>>
    ELSE LET lo == CHOOSE x \in ps : \A y \in ps : x <= y
         IN  <<lo>> \o Ascending(ps \ {lo})

\* ----------------------------------------------------------------------
\* C9  Malformed input in load_data, as claimed: no line makes load_data
\* raise; and the three lists handed to upsert_documents hold exactly the
\* well-formed records, in input order: the text and the metadata of the
\* record, and its id, or a generated id unlike every other when it has
\* none.
\* ----------------------------------------------------------------------
C9_MalformedSkipped ==
    /\ pc # "ld_raised"
    /\ calls = 1 =>
          LET good == Ascending(WellFormed) IN
             /\ Len(documents) = Len(good)
             /\ Len(ids) = Len(good)
             /\ Len(metadatas) = Len(good)
             /\ \A j \in DOMAIN good :
                   /\ documents[j] = TextOf(1, good[j])
                   /\ metadatas[j] = IF lines[good[j]] = "full"
                                     THEN [source |-> <<"x">>] ELSE NoMeta
                   /\ lines[good[j]] = "full" => ids[j] = good[j]
                   /\ lines[good[j]] = "noid" =>
                         \A k \in DOMAIN ids : k # j => ids[k] # ids[j]

\* ======================================================================
\* Re-ingestion
\* ======================================================================
\* ----------------------------------------------------------------------
\* C10  Upsert semantics.  At every moment of every sequence of
\* upsert_documents calls: the collection holds at most one point per id;
\* for an id of which a batch was written, the point is that of the last
\* document with that id in a written batch: its vector, and its text and
\* metadata as payload; an id of which no batch was written keeps the point
\* it had when the object was constructed.  (A batch that fails writes
\* nothing, so the earlier point stays.)
\* ----------------------------------------------------------------------
C10_UpsertSemantics ==
    Constructed =>
        /\ \A p, q \in Stored : p.id = q.id => p = q
        /\ \A d \in DOMAIN lastGood :
              [id |-> d,
               vector |-> [dim |-> providerDim, of |-> lastGood[d].text],
               payload |-> Payload(lastGood[d].text, lastGood[d].meta)] \in Stored
        /\ \A p \in Stored : p.id \notin DOMAIN lastGood => p \in base
        /\ \A p \in base : p.id \notin DOMAIN lastGood => p \in Stored

\* The third call has returned with its batch failed; id 1, which the
\* collection held from the start, carries a document of the second call.
C10_Witness ==
    /\ Returned
    /\ calls = 3
    /\ FailedStarts = {0}
    /\ base # {}
    /\ 1 \in DOMAIN lastGood
    /\ lastGood[1].text[1] = 2
    /\ Cardinality(Stored) = 2

\* ======================================================================
\* Start-up
\* ======================================================================
\* ----------------------------------------------------------------------
\* C11  Unreachable service at start-up, as claimed: no exception of the
\* index leaves KnowledgeBase(); and when the provider did not answer the
\* probe, the object is not initialized, so a later upsert_documents call
\* reports that and makes no call to the provider or to the index.
\* ----------------------------------------------------------------------
C11_NotInitializedAsClaimed ==
    /\ pc # "init_raised"
    /\ (Constructed /\ ~probeOk) =>
          \A k \in DOMAIN trace : trace[k].ev \notin {"embed", "upsert"}

\* ======================================================================
\* Pacing and order of the ingestion
\* ======================================================================
\* The starts of the batches whose points the index accepted.
StoredStarts ==
    {trace[k].at : k \in {j \in DOMAIN trace :
                             trace[j].ev = "upsert" /\ trace[j].out = "ok"}}

\* The time slept by the events of kind kind, all together.
RECURSIVE TimeIn(_, _)
TimeIn(s, kind) ==
    IF s = <<>> THEN 0
    ELSE (IF Head(s).ev = kind THEN Head(s).n ELSE 0) + TimeIn(Tail(s), kind)

\* The backoff waits as the attempts prescribe them: (a + 1) x 10 after the
\* transient failure of attempt a.
RECURSIVE BackoffDue(_)
BackoffDue(s) ==
    IF s = <<>> THEN 0
    ELSE (IF Head(s).ev = "embed" /\ Head(s).out = "transient"
          THEN (Head(s).n + 1) * 10 ELSE 0) + BackoffDue(Tail(s))

\* ----------------------------------------------------------------------
\* C12  Pacing in upsert_documents.  Every pause is of 1 time unit and
\* directly follows the accepted upsert of its batch; every accepted upsert
\* is directly followed by the pause; after the pause comes the first
\* embedding call of the next batch, or the return; a batch that failed is
\* followed by no pause; and when upsert_documents returns, the time it
\* slept is the number of stored batches plus the backoff waits.
\* ----------------------------------------------------------------------
C12_Pacing ==
    /\ \A k \in DOMAIN trace :
          /\ trace[k].ev = "pause" =>
                /\ trace[k].n = 1
                /\ k > 1 /\ trace[k - 1].ev = "upsert" /\ trace[k - 1].out = "ok"
                /\ trace[k - 1].at = trace[k].at
                /\ k < Len(trace) =>
                      \/ trace[k + 1].ev = "return"
                      \/ /\ trace[k + 1].ev = "embed" /\ trace[k + 1].n = 0
                         /\ trace[k + 1].at = trace[k].at + 10
          /\ (trace[k].ev = "upsert" /\ trace[k].out = "ok" /\ k < Len(trace)) =>
                trace[k + 1].ev = "pause" /\ trace[k + 1].at = trace[k].at
          /\ (trace[k].ev = "failed" /\ k < Len(trace)) =>
                trace[k + 1].ev \in {"embed", "return"}
    /\ \A at \in StoredStarts :
          Cardinality({k \in EventsOf("pause") : trace[k].at = at}) =
              IF at = i /\ pc = "ud_pause" THEN 0 ELSE 1
    /\ \A at \in FailedStarts : \A k \in EventsOf("pause") : trace[k].at # at
    /\ Returned =>
          TimeIn(trace, "pause") + TimeIn(trace, "wait") =
              Cardinality(StoredStarts) + BackoffDue(trace)

\* A run of two batches has returned: one stored, one failed after two
\* backoff waits; 1 + 10 + 20 time units were slept.
C12_Witness ==
    /\ Returned
    /\ Cardinality(StoredStarts) = 1
    /\ Cardinality(FailedStarts) = 1
    /\ TimeIn(trace, "pause") = 1
    /\ TimeIn(trace, "wait") = 30

\* ======================================================================
\* The results of search
\* ======================================================================
\* The hits the index returned to the search that has just returned.
Hits == trace[Len(trace)].texts

\* The source named for a hit: that of its payload, "Unknown" without one.
SourceOf(hit) ==
    IF "source" \in DOMAIN hit.payload THEN hit.payload.source ELSE <<"Unknown">>

\* One block of four pieces per hit and a blank line between two blocks.
BlocksOf(hits) ==
    [p \in 1..(5 * Len(hits) - 1) |->
        LET hit == hits[((p - 1) \div 5) + 1]
            r == (p - 1) % 5
        IN  CASE r = 0 -> "[Source: "
              [] r = 1 -> SourceOf(hit)
              [] r = 2 -> "]\n"
              [] r = 3 -> hit.payload.text
              [] OTHER -> "\n\n"]

\* ----------------------------------------------------------------------
\* C13  search is total and has three result shapes.  It never raises; when
\* the query embedding or the index query failed it returns the error
\* string; when the index returned no hit it returns the sentinel; otherwise
\* it returns one "[Source: <source>]" + newline + text block per hit, in
\* the order of the hits, with a blank line between blocks, where <source>
\* is the source of the hit's payload, or "Unknown" when it has none.
\* ----------------------------------------------------------------------
C13_SearchShapes ==
    /\ pc # "s_raised"
    /\ SearchReturned =>
          /\ Outcome \in {"embed_error", "query_error", "ok"}
          /\ Outcome # "ok" => retval = <<"Error searching knowledge base.">>
          /\ (Outcome = "ok" /\ Hits = <<>>) =>
                retval = <<"No relevant information found in the knowledge base.">>
          /\ (Outcome = "ok" /\ Hits # <<>>) => retval = BlocksOf(Hits)

\* search has returned two blocks: the first hit has no source, the second
\* has one.
C13_Witness ==
    /\ SearchReturned
    /\ Outcome = "ok"
    /\ Len(Hits) = 2
    /\ "source" \notin DOMAIN Hits[1].payload
    /\ "source" \in DOMAIN Hits[2].payload
    /\ Len(retval) = 9
    /\ retval[2] = <<"Unknown">>
    /\ retval[5] = "\n\n"

\* ======================================================================
\* Chat history
\* ======================================================================
\* A method of the logger has returned to its caller.
ChatReturned(op) == cpc = "c_idle" /\ cop = op

\* ----------------------------------------------------------------------
\* C14  Chat-history logging never interrupts the caller.  Whatever the
\* database does, no exception leaves connect or save_chat; when connect
\* has returned after a failure, the pool is None; and a save_chat that
\* found the pool None has written no row and returned normally.
\* ----------------------------------------------------------------------
C14_LoggingNeverInterrupts ==
    /\ cpc = "c_raised" => cop \notin {"connect", "save_chat"}
    /\ (ChatReturned("connect") /\ cfailed) => pool = 0
    /\ (ChatReturned("save_chat") /\ pool0 = 0) => (rows = rows0 /\ ~cfailed)
    /\ ChatReturned("save_chat") => (rows # rows0 => rows = Append(rows0, cargs))

\* A row was logged, the pool was closed, a second connect got a pool and
\* then failed, and the save_chat that followed returned without a write.
C14_Witness ==
    /\ ChatReturned("save_chat")
    /\ pool0 = 0
    /\ pools = 2
    /\ closedPools = {1}
    /\ Len(rows) = 1

\* ======================================================================
\* Order of the ingestion
\* ======================================================================
\* The events of the batch that starts at position at.
EventsAt(at) == {k \in DOMAIN trace : trace[k].at = at /\ trace[k].ev # "return"}

\* ----------------------------------------------------------------------
\* C15  Sequential ordering of the ingestion.  The events of a call are
\* those of its batches one after the other, in increasing input order; the
\* upsert of a batch directly follows the successful embedding call of that
\* batch and is issued at most once; the first embedding call of the next
\* batch directly follows the pause or the failure of the batch before it;
\* and a backoff wait is followed by nothing but the next attempt of the
\* same batch or the exhaustion of its retries.
\* ----------------------------------------------------------------------
C15_SequentialOrder ==
    /\ \A j, k \in DOMAIN trace : j < k => trace[j].at <= trace[k].at
    /\ \A k \in DOMAIN trace :
          /\ trace[k].ev = "upsert" =>
                /\ k > 1 /\ trace[k - 1].ev = "embed" /\ trace[k - 1].out = "ok"
                /\ trace[k - 1].at = trace[k].at
                /\ Cardinality({j \in EventsAt(trace[k].at) : trace[j].ev = "upsert"}) = 1
          /\ (trace[k].ev = "embed" /\ trace[k].n = 0) =>
                /\ trace[k].at % 10 = 0
                /\ Cardinality({j \in EventsAt(trace[k].at) : IsFirstAttempt(trace[j])}) = 1
                /\ IF trace[k].at = 0 THEN k = 1
                   ELSE /\ trace[k - 1].ev \in {"pause", "failed"}
                        /\ trace[k - 1].at = trace[k].at - 10
          /\ (trace[k].ev = "wait" /\ k < Len(trace)) =>
                /\ trace[k + 1].ev \in {"embed", "exhausted"}
                /\ trace[k + 1].at = trace[k].at
    /\ pc = "geb_wait" => trace[Len(trace)].ev = "embed" /\ trace[Len(trace)].at = i
    /\ pc \in {"geb_loop", "geb_wait", "ud_points", "ud_pause", "ud_except"} =>
          \A k \in DOMAIN trace : trace[k].at <= i

\* A call of two batches has returned: the first failed after three backoff
\* waits, the second was embedded at its second attempt and stored.
C15_Witness ==
    /\ Returned
    /\ FailedStarts = {0}
    /\ StoredStarts = {10}
    /\ CallsIn(InvocationOf(0)) = 3
    /\ CallsIn(InvocationOf(10)) = 2

\* ======================================================================
\* Provisioning, case by case
\* ======================================================================
\* The dimension __init__ provisions for: that of the probe, 768 without.
ProvisioningDim == IF probeOk THEN providerDim ELSE 768

\* The index operations __init__ has issued so far, by name.
Issued(op) == \E k \in DOMAIN provlog : provlog[k].op = op

\* ----------------------------------------------------------------------
\* C16  Provisioning in __init__.  The collection is deleted only when it
\* existed with a dimension other than the provisioning dimension (that of
\* the probe, or 768 when the probe failed), and then it is deleted and
\* created again; when the dimensions are equal, neither a delete nor a
\* create is issued and the collection keeps its points; when it was absent
\* it is created, with no delete; and the collections of other names stay
\* as they were, throughout.
\* ----------------------------------------------------------------------
C16_Provisioning ==
    /\ Issued("delete") => (Existed /\ Was.size # ProvisioningDim)
    /\ Issued("create") =>
          (~Existed \/ (Issued("delete") /\ provlog[1].op = "delete"))
    /\ Constructed =>
          /\ (Existed /\ Was.size # ProvisioningDim) =>
                provlog = <<[op |-> "delete", size |-> 0, distance |-> None],
                            [op |-> "create", size |-> ProvisioningDim,
                             distance |-> "Cosine"]>>
          /\ (Existed /\ Was.size = ProvisioningDim) =>
                /\ provlog = <<>>
                /\ base = Was.points
                /\ calls = 0 => collections = index0
          /\ ~Existed =>
                provlog = <<[op |-> "create", size |-> ProvisioningDim,
                             distance |-> "Cosine"]>>
    /\ \A n \in DOMAIN index0 \ {"anantya_docs"} :
          n \in DOMAIN collections /\ collections[n] = index0[n]
    /\ DOMAIN collections \subseteq DOMAIN index0 \cup {"anantya_docs"}

\* The probe failed although the collection had the provider's dimension,
\* which is not 768: the collection and its point are gone.
C16_Witness ==
    /\ Constructed /\ calls = 0
    /\ ~probeOk
    /\ Existed /\ Was.size = providerDim /\ Was.size # 768
    /\ Was.points # {}
    /\ Stored = {}
    /\ Len(provlog) = 2

\* ======================================================================
\* Payloads
\* ======================================================================
\* ----------------------------------------------------------------------
\* C17  Payload integrity, as claimed.  For every id of which a batch was
\* written, the stored point of that id has as payload text the text of the
\* input document, whatever its metadata (a key named text included), has
\* every other entry of the document's metadata, and has the vector the
\* provider returned for the document.
\* ----------------------------------------------------------------------
C17_PayloadIntegrity ==
    Constructed =>
        \A d \in DOMAIN lastGood :
            \E p \in Stored :
                /\ p.id = d
                /\ p.payload.text = lastGood[d].text
                /\ \A key \in DOMAIN lastGood[d].meta \ {"text"} :
                      key \in DOMAIN p.payload /\ p.payload[key] = lastGood[d].meta[key]
                /\ p.vector = lastGood[d].vector

\* ======================================================================
\* Termination
\* ======================================================================
\* The calls of client.upsert made by the current call.
UpsertCalls == EventsOf("upsert")

\* ----------------------------------------------------------------------
\* C18  Termination of the ingestion.  Whatever the provider and the index
\* answer, a call of upsert_documents returns; and at every moment it has
\* made at most 3 x ceil(N / 10) embedding calls and at most ceil(N / 10)
\* index upsert calls.
\* ----------------------------------------------------------------------
C18_Termination ==
    /\ [](/\ Len(EmbedCalls) <= 3 * CeilDiv(N, 10)
          /\ Cardinality(UpsertCalls) <= CeilDiv(N, 10))
    /\ [](calls = 1 => <>Returned)

\* A call on 20 documents has returned after the provider refused every
\* call: 6 embedding calls, no upsert.
C18_Witness ==
    /\ Returned
    /\ N = 20
    /\ Len(EmbedCalls) = 6
    /\ UpsertCalls = {}

====
